---- MODULE Spec2Model ----
(***************************************************************************)
(* DocuMind front end: the AuthProvider session state (AuthContext.tsx)    *)
(* and the ModeratorDashboard load cycle (loadDashboardData), in its       *)
(* reduced (2 requests) and extended (4 requests) variant.                 *)
(*                                                                         *)
(* Granularity: JavaScript runs each callback and each continuation of an  *)
(* async function to completion, and React commits the state updates of    *)
(* one such synchronous block together, so one action is one callback or   *)
(* one continuation between two awaits.                                    *)
(***************************************************************************)
EXTENDS Integers, Sequences, FiniteSets, TLC

\* ---------------------------------------------------------------- bounds
MaxCycles == 2       \* load cycles started on one mounted dashboard
MaxPending == 2      \* auth-state notifications queued by the provider
MaxPercent == 100    \* largest percentage a gauge is given
MaxLatency == 450    \* largest average response time (ms) a gauge is given
Scale == 10          \* gauge values are held in units of 1/Scale

\* ------------------------------------------------------------ identities
NoUser == "null"             \* User | null
NullEmail == "<null>"        \* user.email === null
NoToken == "no-token"        \* string | null

\* The identities the provider can report: the two allowlisted accounts, an
\* account whose address differs from an entry only in case, an unlisted
\* account and an account without an address.
Users == {"u_mod1", "u_mod2", "u_case", "u_plain", "u_noemail"}

\* The accounts that sign in while a dashboard is mounted: a moderator and an
\* ordinary user.
DashUsers == {"u_mod1", "u_plain"}

EmailOf(u) ==
    CASE u = "u_mod1"    -> "akhyarahmad919@gmail.com"
      [] u = "u_mod2"    -> "ansuthisis789@gmail.com"
      [] u = "u_case"    -> "AkhyarAhmad919@gmail.com"
      [] u = "u_plain"   -> "someone@example.com"
      [] OTHER           -> NullEmail

MODERATOR_EMAILS == <<"akhyarahmad919@gmail.com", "ansuthisis789@gmail.com">>

\* String.prototype.toLowerCase on the addresses above
ToLowerCase(e) == IF e = "AkhyarAhmad919@gmail.com" THEN "akhyarahmad919@gmail.com" ELSE e

\* Array.prototype.includes: strict equality against every element
Includes(arr, x) == \E i \in DOMAIN arr : arr[i] = x

\* JavaScript truthiness of user.email
Truthy(e) == e # NullEmail /\ e # ""

IsModeratorUserIgnoreCase(user) ==
    /\ user # NoUser
    /\ Truthy(EmailOf(user))
    /\ \E i \in DOMAIN MODERATOR_EMAILS :
          ToLowerCase(MODERATOR_EMAILS[i]) = ToLowerCase(EmailOf(user))

\* user && user.email && MODERATOR_EMAILS.includes(user.email)
IsModeratorUser(user) ==
    /\ user # NoUser
    /\ Truthy(EmailOf(user))
    /\ Includes(MODERATOR_EMAILS, EmailOf(user))

\* currentUser.getIdToken(): the token is bound to the identity
IdTokenOf(u) ==
    CASE u = "u_mod1"    -> "tok_mod1"
      [] u = "u_mod2"    -> "tok_mod2"
      [] u = "u_case"    -> "tok_case"
      [] u = "u_plain"   -> "tok_plain"
      [] OTHER           -> "tok_noemail"

\* ------------------------------------------------------------- dashboard
Variants == {2, 4}           \* requests per cycle: reduced, extended
Statuses == {200, 401, 403, 500}
Cycles == 1..MaxCycles

ErrorMessage == "Failed to load moderator data."

\* response.ok
Ok(status) == status \in 200..299

\* [401, 403].includes(response.status)
IsUnauthorized(status) == status = 401 \/ status = 403

\* for (const response of responses) { ... }: the first response that is
\* 401/403 ends the cycle with a redirect, the first that is not ok throws
RECURSIVE CheckFrom(_, _)
CheckFrom(responses, i) ==
    IF i > Len(responses) THEN "ok"
    ELSE IF IsUnauthorized(responses[i]) THEN "unauthorized"
    ELSE IF ~Ok(responses[i]) THEN "throw"
    ELSE CheckFrom(responses, i + 1)

CheckResponses(responses) == CheckFrom(responses, 1)

\* data of no cycle: useState([]) / useState(null)
NoData == 0

EmptySnapshot ==
    [users |-> NoData, sessions |-> NoData, documents |-> NoData,
     stats |-> NoData, lastUpdated |-> NoData]

\* ---------------------------------------------------------------- gauges
\* the two class names getColorClasses returns, per tier
GreenClasses == "text-green-400 bg-green-900/20"
YellowClasses == "text-yellow-400 bg-yellow-900/20"
RedClasses == "text-red-400 bg-red-900/20"

\* value < n, for a value held in units of 1/Scale
Less(value, n) == value < n * Scale

\* the thresholds in the code of getColorClasses
PercentYellowFrom == 60
PercentRedFrom == 80
ReducedLatencyYellowFrom == 350
ReducedLatencyRedFrom == 400
ExtendedLatencyYellowFrom == 150
ExtendedLatencyRedFrom == 250

PercentClassesInclusive(value) ==
    IF value <= PercentYellowFrom * Scale THEN GreenClasses
    ELSE IF value <= PercentRedFrom * Scale THEN YellowClasses
    ELSE RedClasses

\* if (value < 60) ... if (value < 80) ... return red
PercentClasses(value) ==
    IF Less(value, PercentYellowFrom) THEN GreenClasses
    ELSE IF Less(value, PercentRedFrom) THEN YellowClasses
    ELSE RedClasses

\* getColorClasses of the reduced variant (pages/ModeratorDashboard.tsx)
GetColorClassesReduced(value, unit) ==
    IF unit = "ms"
    THEN IF Less(value, ReducedLatencyYellowFrom) THEN GreenClasses
         ELSE IF Less(value, ReducedLatencyRedFrom) THEN YellowClasses
         ELSE RedClasses
    ELSE PercentClasses(value)

\* getColorClasses of the extended variant
GetColorClassesExtended(value, unit) ==
    IF unit = "ms"
    THEN IF Less(value, ExtendedLatencyYellowFrom) THEN GreenClasses
         ELSE IF Less(value, ExtendedLatencyRedFrom) THEN YellowClasses
         ELSE RedClasses
    ELSE PercentClasses(value)

\* no gauge is rendered: {stats && (...)}
NoStat == [value |-> 0, unit |-> "none"]

\* the values the statistics endpoint can report for a gauge, by unit
Stats ==
    [value : 0..(MaxPercent * Scale), unit : {"%"}]
        \cup [value : 0..(MaxLatency * Scale), unit : {"ms"}]

VARIABLES
    \* AuthContext.tsx
    authUser,       \* auth.currentUser of the identity provider
    pending,        \* auth-state notifications emitted and not yet delivered
    currentUser,    \* useState<User | null>(null)
    authLoading,    \* useState(true) of AuthProvider
    isModerator,    \* useState(false)
    lastCall,       \* last signup/login/signInWithGoogle/logout call: what
                    \* the provider's promise settled to, what the caller got
    \* ModeratorDashboard
    nreq,           \* requests per cycle of the mounted variant
    effectRuns,     \* runs of the mount effect
    cyc,            \* load cycles started
    pc,             \* per cycle: where loadDashboardData is suspended
    token,          \* per cycle: what getToken() resolves to
    requests,       \* per cycle: bearer tokens of the requests in flight
    nIssued,        \* per cycle: requests issued
    gotToken,       \* per cycle: getToken() resolved to a token
    sawUnauth,      \* per cycle: all responses arrived, one of them 401/403
    allOk,          \* per cycle: all responses arrived, every one of them 2xx
    effects,        \* per cycle: what the cycle did to the page
    snapshot,       \* users/sessions/documents/stats/lastUpdated state
    loading,        \* useState(true) of the dashboard
    error,          \* useState('')
    \* a gauge of the statistics grid
    stat,           \* its value and unit
    colorClasses    \* const colorClasses = getColorClasses(stat.value, stat.unit)

sessionVars == <<authUser, pending, currentUser, authLoading, isModerator,
                 lastCall>>
cycleVars == <<pc, token, requests, nIssued, gotToken, sawUnauth, allOk,
               effects>>
gaugeVars == <<stat, colorClasses>>
dashVars == <<nreq, effectRuns, cyc, cycleVars, snapshot, loading, error,
              gaugeVars>>
vars == <<sessionVars, dashVars>>

\* no call made yet
NoCall == [settled |-> "none", returned |-> "none"]

\* The provider is constructed and subscribed to: the identity the provider
\* restored (or none) is queued as the first notification.
InitSession(accounts) ==
    /\ authUser \in accounts \cup {NoUser}
    /\ pending = <<authUser>>
    /\ currentUser = NoUser
    /\ authLoading = TRUE
    /\ isModerator = FALSE
    /\ lastCall = NoCall

InitDashboard ==
    /\ nreq \in Variants
    /\ effectRuns = 0
    /\ cyc = 0
    /\ pc = [c \in Cycles |-> "idle"]
    /\ token = [c \in Cycles |-> NoToken]
    /\ requests = [c \in Cycles |-> <<>>]
    /\ nIssued = [c \in Cycles |-> 0]
    /\ gotToken = [c \in Cycles |-> FALSE]
    /\ sawUnauth = [c \in Cycles |-> FALSE]
    /\ allOk = [c \in Cycles |-> FALSE]
    /\ effects = [c \in Cycles |-> {}]
    /\ snapshot = EmptySnapshot
    /\ loading = TRUE
    /\ error = ""
    /\ stat = NoStat
    /\ colorClasses = ""

Init == InitSession(DashUsers) /\ InitDashboard

InitProvider == InitSession(Users) /\ InitDashboard


\* ------------------------------------------------------------ AuthContext

\* The provider accepts a credential: it replaces auth.currentUser and
\* queues one auth-state notification for the subscriber.
ProviderSetsUser(u) ==
    /\ Len(pending) < MaxPending
    /\ authUser' = u
    /\ pending' = Append(pending, u)
    /\ UNCHANGED <<currentUser, authLoading, isModerator, dashVars>>

\* The provider refuses a call (wrong password, address in use, popup
\* closed, network): auth.currentUser stays, no notification is queued.
ProviderRejects ==
    UNCHANGED <<authUser, pending, currentUser, authLoading, isModerator,
                dashVars>>

ThenSwallowing(p) == "undefined"

\* promise.then(() => {}): a fulfilled promise is fulfilled with undefined,
\* a rejected one stays rejected
Then(p) == IF p = "rejected" THEN "rejected" ELSE "undefined"

\* what the caller of signup/login/signInWithGoogle gets for what the
\* provider's promise settled to
Returned(p) == [settled |-> p, returned |-> Then(p)]

\* The forms that call these are children of the provider, rendered only
\* once loading is false.
signup(u) ==
    /\ ~authLoading /\ u # authUser /\ ProviderSetsUser(u)
    /\ lastCall' = Returned("credential")

signupRejected ==
    ~authLoading /\ ProviderRejects /\ lastCall' = Returned("rejected")

login(u) ==
    /\ ~authLoading /\ u # authUser /\ ProviderSetsUser(u)
    /\ lastCall' = Returned("credential")

loginRejected ==
    ~authLoading /\ ProviderRejects /\ lastCall' = Returned("rejected")

signInWithGoogle(u) ==
    /\ ~authLoading /\ u # authUser /\ ProviderSetsUser(u)
    /\ lastCall' = Returned("credential")

signInWithGoogleRejected ==
    ~authLoading /\ ProviderRejects /\ lastCall' = Returned("rejected")

\* return firebaseSignOut(auth): the provider's promise itself
logout ==
    /\ ~authLoading /\ authUser # NoUser /\ ProviderSetsUser(NoUser)
    /\ lastCall' = [settled |-> "undefined", returned |-> "undefined"]

logoutRejected ==
    /\ ~authLoading /\ ProviderRejects
    /\ lastCall' = [settled |-> "rejected", returned |-> "rejected"]

GetTokenFromState == IF currentUser # NoUser THEN IdTokenOf(currentUser) ELSE NoToken

\* getToken(): reads auth.currentUser when it is called
GetToken == IF authUser # NoUser THEN IdTokenOf(authUser) ELSE NoToken

AuthStateCallbackKeepsLoading ==
    /\ pending # <<>>
    /\ LET user == Head(pending) IN
         /\ currentUser' = user
         /\ isModerator' = IsModeratorUser(user)
         /\ authLoading' = IF user # NoUser THEN FALSE ELSE authLoading
    /\ pending' = Tail(pending)
    /\ UNCHANGED <<authUser, lastCall, dashVars>>

AuthStateCallbackCoalescing ==
    /\ pending # <<>>
    /\ LET user == pending[Len(pending)] IN
         /\ currentUser' = user
         /\ isModerator' = IsModeratorUser(user)
         /\ authLoading' = FALSE
    /\ pending' = <<>>
    /\ UNCHANGED <<authUser, lastCall, dashVars>>

\* the callback registered with onAuthStateChanged, for the oldest
\* notification queued
AuthStateCallback ==
    /\ pending # <<>>
    /\ LET user == Head(pending) IN
         /\ currentUser' = user
         /\ isModerator' = IsModeratorUser(user)
         /\ authLoading' = FALSE
    /\ pending' = Tail(pending)
    /\ UNCHANGED <<authUser, lastCall, dashVars>>

\* ------------------------------------------------------ loadDashboardData

InFlight(c) == pc[c] \in {"awaitToken", "awaitFetch", "awaitJson"}

FinallyOnlyOnSuccess(c) ==
    /\ loading' = IF "replace" \in effects'[c] THEN FALSE ELSE loading
    /\ pc' = [pc EXCEPT ![c] = "done"]
    /\ token' = [token EXCEPT ![c] = NoToken]
    /\ requests' = [requests EXCEPT ![c] = <<>>]

\* finally { setLoading(false) }: the cycle is over, its locals are gone
Finally(c) ==
    /\ loading' = FALSE
    /\ pc' = [pc EXCEPT ![c] = "done"]
    /\ token' = [token EXCEPT ![c] = NoToken]
    /\ requests' = [requests EXCEPT ![c] = <<>>]

CatchStampsTime(c) ==
    /\ error' = ErrorMessage
    /\ effects' = [effects EXCEPT ![c] = @ \cup {"error"}]
    /\ snapshot' = [snapshot EXCEPT !.lastUpdated = c]

CatchClearsSnapshot(c) ==
    /\ error' = ErrorMessage
    /\ effects' = [effects EXCEPT ![c] = @ \cup {"error"}]
    /\ snapshot' = EmptySnapshot

\* catch (err) { setError(...) }
Catch(c) ==
    /\ error' = ErrorMessage
    /\ effects' = [effects EXCEPT ![c] = @ \cup {"error"}]
    /\ UNCHANGED snapshot

NavigateWithoutReturn(c, to) ==
    /\ effects' = [effects EXCEPT ![c] = @ \cup {to, "error"}]
    /\ error' = ErrorMessage
    /\ UNCHANGED snapshot

\* navigate(to); return;
NavigateAndReturn(c, to) ==
    /\ effects' = [effects EXCEPT ![c] = @ \cup {to}]
    /\ UNCHANGED <<error, snapshot>>

SetSnapshotWithoutTimestamp(s, c) ==
    IF nreq = 2
    THEN [s EXCEPT !.users = c, !.stats = c]
    ELSE [s EXCEPT !.users = c, !.sessions = c, !.documents = c, !.stats = c]

SetSnapshotWithoutUsers(s, c) ==
    IF nreq = 2
    THEN [s EXCEPT !.stats = c, !.lastUpdated = c]
    ELSE [s EXCEPT !.sessions = c, !.documents = c, !.stats = c,
                   !.lastUpdated = c]

\* setUsers/setSessions/setDocuments/setStats/setLastUpdated of one cycle;
\* the reduced variant has no sessions and documents.  The data a cycle
\* fetched and the Date it took are represented by the cycle's number.
SetSnapshot(s, c) ==
    IF nreq = 2
    THEN [s EXCEPT !.users = c, !.stats = c, !.lastUpdated = c]
    ELSE [users |-> c, sessions |-> c, documents |-> c, stats |-> c,
          lastUpdated |-> c]

\* setLoading(true); setError(''); const token = await getToken();
StartCycle(c) ==
    /\ c = cyc + 1
    /\ c \in Cycles
    /\ cyc' = c
    /\ loading' = TRUE
    /\ error' = ""
    /\ token' = [token EXCEPT ![c] = GetToken]
    /\ pc' = [pc EXCEPT ![c] = "awaitToken"]
    /\ UNCHANGED <<sessionVars, gaugeVars, nreq, requests, nIssued, gotToken, sawUnauth, allOk,
                   effects, snapshot>>

MountEffectBeforeAuth ==
    /\ effectRuns = 0
    /\ effectRuns' = 1
    /\ StartCycle(1)

\* useEffect(() => { loadDashboardData(); }, []): the dashboard is a child
\* of the provider and mounts once the provider's loading is false
MountEffect ==
    /\ ~authLoading
    /\ effectRuns = 0
    /\ effectRuns' = 1
    /\ StartCycle(1)

\* loadDashboardData entered again while a cycle is pending: nothing in the
\* function refuses it.  The buttons are not rendered while loading is true;
\* the entry modelled is the mount effect running a second time right after
\* the first on the same state hooks (React's development Strict Mode).
StrictEffectRerun ==
    /\ effectRuns = 1
    /\ cyc = 1
    /\ pc[1] = "awaitToken"
    /\ effectRuns' = 2
    /\ StartCycle(2)

\* the Refresh button: rendered when neither loading nor error is set
Refresh ==
    /\ effectRuns > 0
    /\ ~loading
    /\ error = ""
    /\ UNCHANGED effectRuns
    /\ StartCycle(cyc + 1)

\* the Retry button: rendered when loading is false and error is set
Retry ==
    /\ effectRuns > 0
    /\ ~loading
    /\ error # ""
    /\ UNCHANGED effectRuns
    /\ StartCycle(cyc + 1)

TokenResolveSequential(c) ==
    /\ pc[c] = "awaitToken"
    /\ IF token[c] = NoToken
       THEN /\ NavigateAndReturn(c, "/login")
            /\ Finally(c)
            /\ UNCHANGED <<nIssued, gotToken>>
       ELSE /\ gotToken' = [gotToken EXCEPT ![c] = TRUE]
            /\ requests' = [requests EXCEPT ![c] = <<token[c]>>]
            /\ nIssued' = [nIssued EXCEPT ![c] = 1]
            /\ pc' = [pc EXCEPT ![c] = "awaitFetch"]
            /\ UNCHANGED <<token, effects, error, snapshot, loading>>
    /\ UNCHANGED <<sessionVars, gaugeVars, nreq, effectRuns, cyc, sawUnauth, allOk>>

TokenResolveRereadsToken(c) ==
    /\ pc[c] = "awaitToken"
    /\ IF token[c] = NoToken
       THEN /\ NavigateAndReturn(c, "/login")
            /\ Finally(c)
            /\ UNCHANGED <<nIssued, gotToken>>
       ELSE /\ gotToken' = [gotToken EXCEPT ![c] = TRUE]
            /\ requests' = [requests EXCEPT ![c] = [i \in 1..nreq |-> GetToken]]
            /\ nIssued' = [nIssued EXCEPT ![c] = nreq]
            /\ pc' = [pc EXCEPT ![c] = "awaitFetch"]
            /\ UNCHANGED <<token, effects, error, snapshot, loading>>
    /\ UNCHANGED <<sessionVars, gaugeVars, nreq, effectRuns, cyc, sawUnauth, allOk>>

TokenResolveWithoutCheck(c) ==
    /\ pc[c] = "awaitToken"
    /\ gotToken' = [gotToken EXCEPT ![c] = token[c] # NoToken]
    /\ requests' = [requests EXCEPT ![c] = [i \in 1..nreq |-> token[c]]]
    /\ nIssued' = [nIssued EXCEPT ![c] = nreq]
    /\ pc' = [pc EXCEPT ![c] = "awaitFetch"]
    /\ UNCHANGED <<token, effects, error, snapshot, loading>>
    /\ UNCHANGED <<sessionVars, gaugeVars, nreq, effectRuns, cyc, sawUnauth, allOk>>

\* getToken() resolved: if (!token) { navigate('/login'); return; }
\* otherwise all fetches are started
TokenResolve(c) ==
    /\ pc[c] = "awaitToken"
    /\ IF token[c] = NoToken
       THEN /\ NavigateAndReturn(c, "/login")
            /\ Finally(c)
            /\ UNCHANGED <<nIssued, gotToken>>
       ELSE /\ gotToken' = [gotToken EXCEPT ![c] = TRUE]
            /\ requests' = [requests EXCEPT ![c] = [i \in 1..nreq |-> token[c]]]
            /\ nIssued' = [nIssued EXCEPT ![c] = nreq]
            /\ pc' = [pc EXCEPT ![c] = "awaitFetch"]
            /\ UNCHANGED <<token, effects, error, snapshot, loading>>
    /\ UNCHANGED <<sessionVars, gaugeVars, nreq, effectRuns, cyc, sawUnauth, allOk>>

\* getIdToken() rejected
TokenReject(c) ==
    /\ pc[c] = "awaitToken"
    /\ token[c] # NoToken
    /\ Catch(c)
    /\ Finally(c)
    /\ UNCHANGED <<sessionVars, gaugeVars, nreq, effectRuns, cyc, nIssued, gotToken, sawUnauth, allOk>>

\* Promise.all of the fetches resolved with the statuses rs
FetchResolve(c, rs) ==
    /\ pc[c] = "awaitFetch"
    /\ sawUnauth' = [sawUnauth EXCEPT ![c] = \E i \in DOMAIN rs : rs[i] \in {401, 403}]
    /\ allOk' = [allOk EXCEPT ![c] = \A i \in DOMAIN rs : Ok(rs[i])]
    /\ LET result == CheckResponses(rs) IN
         CASE result = "unauthorized" ->
                NavigateAndReturn(c, "/documind") /\ Finally(c)
           [] result = "throw" ->
                Catch(c) /\ Finally(c)
           [] OTHER ->
                /\ pc' = [pc EXCEPT ![c] = "awaitJson"]
                /\ requests' = [requests EXCEPT ![c] = <<>>]
                /\ UNCHANGED <<token, effects, error, snapshot, loading>>
    /\ UNCHANGED <<sessionVars, gaugeVars, nreq, effectRuns, cyc, nIssued, gotToken>>

\* one fetch failed at the network level: Promise.all rejects
FetchReject(c) ==
    /\ pc[c] = "awaitFetch"
    /\ Catch(c)
    /\ Finally(c)
    /\ UNCHANGED <<sessionVars, gaugeVars, nreq, effectRuns, cyc, nIssued, gotToken, sawUnauth, allOk>>

\* every body parsed: the five setters, then finally
JsonResolve(c) ==
    /\ pc[c] = "awaitJson"
    /\ snapshot' = SetSnapshot(snapshot, c)
    /\ effects' = [effects EXCEPT ![c] = @ \cup {"replace"}]
    /\ Finally(c)
    /\ UNCHANGED <<sessionVars, gaugeVars, nreq, effectRuns, cyc, nIssued, gotToken, sawUnauth, allOk, error>>

JsonRejectAfterPartialWrite(c) ==
    /\ pc[c] = "awaitJson"
    /\ snapshot' = [snapshot EXCEPT !.users = c]
    /\ error' = ErrorMessage
    /\ effects' = [effects EXCEPT ![c] = @ \cup {"error"}]
    /\ Finally(c)
    /\ UNCHANGED <<sessionVars, gaugeVars, nreq, effectRuns, cyc, nIssued, gotToken, sawUnauth, allOk>>

\* a body failed to parse: Promise.all rejects
JsonReject(c) ==
    /\ pc[c] = "awaitJson"
    /\ Catch(c)
    /\ Finally(c)
    /\ UNCHANGED <<sessionVars, gaugeVars, nreq, effectRuns, cyc, nIssued, gotToken, sawUnauth, allOk>>

\* The dashboard with its provider; the provider accepts every call (the
\* rejected calls, which touch no state of the dashboard, are in
\* NextProvider).
Next ==
    \/ \E u \in DashUsers : signup(u)
    \/ \E u \in DashUsers : login(u)
    \/ \E u \in DashUsers : signInWithGoogle(u)
    \/ logout
    \/ AuthStateCallback
    \/ MountEffect
    \/ StrictEffectRerun
    \/ Refresh
    \/ Retry
    \/ \E c \in Cycles : TokenResolve(c)
    \/ \E c \in Cycles : TokenReject(c)
    \/ \E c \in Cycles : \E rs \in [1..nreq -> Statuses] : FetchResolve(c, rs)
    \/ \E c \in Cycles : FetchReject(c)
    \/ \E c \in Cycles : JsonResolve(c)
    \/ \E c \in Cycles : JsonReject(c)

Spec == Init /\ [][Next]_vars

\* What an awaited promise of cycle c does once it settles: the continuation
\* of loadDashboardData that waits for it runs.
TokenSettles(c) == TokenResolve(c) \/ TokenReject(c)
FetchSettles(c) ==
    (\E rs \in [1..nreq -> Statuses] : FetchResolve(c, rs)) \/ FetchReject(c)
JsonSettles(c) == JsonResolve(c) \/ JsonReject(c)

\* The dashboard while the session it was opened in lasts: the only call
\* made on the provider is the sign-out.
NextLive ==
    \/ logout
    \/ AuthStateCallback
    \/ MountEffect
    \/ StrictEffectRerun
    \/ Refresh
    \/ Retry
    \/ \E c \in Cycles : TokenResolve(c)
    \/ \E c \in Cycles : TokenReject(c)
    \/ \E c \in Cycles : \E rs \in [1..nreq -> Statuses] : FetchResolve(c, rs)
    \/ \E c \in Cycles : FetchReject(c)
    \/ \E c \in Cycles : JsonResolve(c)
    \/ \E c \in Cycles : JsonReject(c)

\* Every promise a cycle awaits settles (getToken, the fetches, the bodies),
\* and the event loop then runs the continuation.
SpecLive ==
    /\ Init /\ [][NextLive]_vars
    /\ \A c \in Cycles :
          /\ WF_vars(TokenSettles(c))
          /\ WF_vars(FetchSettles(c))
          /\ WF_vars(JsonSettles(c))

\* The provider alone, over every account.
NextProvider ==
    \/ \E u \in Users : signup(u)
    \/ \E u \in Users : login(u)
    \/ \E u \in Users : signInWithGoogle(u)
    \/ logout
    \/ signupRejected
    \/ loginRejected
    \/ signInWithGoogleRejected
    \/ logoutRejected
    \/ AuthStateCallback

SpecProvider == InitProvider /\ [][NextProvider]_vars

\* ----------------------------------------------------- the statistics grid

\* getColorClasses of the mounted variant
GetColorClasses(value, unit) ==
    IF nreq = 2 THEN GetColorClassesReduced(value, unit)
    ELSE GetColorClassesExtended(value, unit)

\* A mounted dashboard of a signed-in moderator whose first cycle stored its
\* snapshot; the statistics hold any value for the gauge looked at, which is
\* not rendered yet.
InitGauge ==
    /\ authUser = "u_mod1" /\ currentUser = "u_mod1" /\ isModerator = TRUE
    /\ pending = <<>> /\ authLoading = FALSE
    /\ lastCall = Returned("credential")
    /\ nreq \in Variants
    /\ effectRuns = 1 /\ cyc = 1
    /\ pc = [c \in Cycles |-> IF c = 1 THEN "done" ELSE "idle"]
    /\ token = [c \in Cycles |-> NoToken]
    /\ requests = [c \in Cycles |-> <<>>]
    /\ nIssued = [c \in Cycles |-> IF c = 1 THEN nreq ELSE 0]
    /\ gotToken = [c \in Cycles |-> c = 1]
    /\ sawUnauth = [c \in Cycles |-> FALSE]
    /\ allOk = [c \in Cycles |-> c = 1]
    /\ effects = [c \in Cycles |-> IF c = 1 THEN {"replace"} ELSE {}]
    /\ snapshot = SetSnapshot(EmptySnapshot, 1)
    /\ loading = FALSE
    /\ error = ""
    /\ stat \in Stats
    /\ colorClasses = ""

\* {stats && (...)}: the grid is rendered, the gauge gets its classes
RenderStat ==
    /\ ~loading /\ error = "" /\ snapshot.stats # NoData
    /\ stat # NoStat
    /\ colorClasses = ""
    /\ colorClasses' = GetColorClasses(stat.value, stat.unit)
    /\ UNCHANGED <<sessionVars, nreq, effectRuns, cyc, cycleVars, snapshot,
                   loading, error, stat>>

NextGauge == RenderStat

SpecGauge == InitGauge /\ [][NextGauge]_vars


\* ================================================================ claims

Done(c) == pc[c] = "done"

\* C1: in every cycle that obtained a token and whose responses all arrived,
\* one 401/403 among them, in any position and whatever the other statuses
\* are, makes the cycle end as Unauthorized: the redirect to /documind and
\* nothing else (no error message, no snapshot).
C1_AuthorizationPrecedence ==
    \A c \in Cycles :
        (Done(c) /\ gotToken[c] /\ sawUnauth[c]) => effects[c] = {"/documind"}

\* what a successful cycle c publishes: all fields of its variant, together
PublishedBy(c) ==
    [users |-> c,
     sessions |-> IF nreq = 4 THEN c ELSE NoData,
     documents |-> IF nreq = 4 THEN c ELSE NoData,
     stats |-> c,
     lastUpdated |-> c]

\* C2: a cycle that ends as Unauthenticated, Unauthorized or RemoteError
\* leaves every snapshot field as it was; the snapshot changes only in the
\* step that ends a successful cycle, and then to that cycle's data, so it
\* is always the data of the last successful cycle or the initial one.
C2_AtomicSnapshotOnFailure ==
    /\ [][ /\ \A c \in Cycles :
                (InFlight(c) /\ pc'[c] = "done" /\ "replace" \notin effects'[c])
                    => snapshot' = snapshot
           /\ snapshot' # snapshot =>
                \E c \in Cycles :
                    /\ pc[c] = "awaitJson" /\ pc'[c] = "done"
                    /\ effects'[c] = {"replace"}
                    /\ snapshot' = PublishedBy(c) ]_vars
    /\ [](\/ snapshot = EmptySnapshot
          \/ \E c \in Cycles : Done(c) /\ effects[c] = {"replace"}
                                /\ snapshot = PublishedBy(c))

\* C2 witness: a first cycle stored its snapshot and a later cycle failed
C2_Witness ==
    /\ snapshot = PublishedBy(1)
    /\ Done(2) /\ effects[2] \in {{"error"}, {"/documind"}, {"/login"}}

\* C3: a cycle that obtained a token ends with exactly one of: snapshot
\* replaced, redirect to /documind, error message set; never two, never none
\* (and never the sign-in redirect).
C3_ExactlyOneOutcome ==
    \A c \in Cycles :
        (Done(c) /\ gotToken[c]) =>
            /\ Cardinality(effects[c] \cap {"replace", "/documind", "error"}) = 1
            /\ effects[c] \subseteq {"replace", "/documind", "error"}

\* C3 witness: two finished cycles with a token and different outcomes
C3_Witness ==
    /\ Done(1) /\ gotToken[1] /\ effects[1] = {"/documind"}
    /\ Done(2) /\ gotToken[2] /\ effects[2] = {"error"}

\* C4: a cycle whose getToken() resolves to no token ends with the sign-in
\* redirect in that very step and has issued no request; requests exist
\* only in cycles that obtained a token, and carry it.
C4_NoTokenNoRequests ==
    /\ [][ \A c \in Cycles :
             (pc[c] = "awaitToken" /\ token[c] = NoToken /\ pc'[c] # pc[c]) =>
                 /\ pc'[c] = "done"
                 /\ effects'[c] = {"/login"}
                 /\ nIssued'[c] = 0 /\ requests'[c] = <<>> ]_vars
    /\ [](\A c \in Cycles :
             /\ (nIssued[c] > 0 \/ requests[c] # <<>>) => gotToken[c]
             /\ \A i \in DOMAIN requests[c] : requests[c][i] # NoToken
             /\ "/login" \in effects[c] => (nIssued[c] = 0 /\ ~gotToken[c]))

\* C4 witness: a cycle ended with the sign-in redirect and no request
C4_Witness ==
    \E c \in Cycles : Done(c) /\ effects[c] = {"/login"} /\ nIssued[c] = 0


\* C5: the published isModerator is true exactly when an identity is
\* published and its address is, character for character, one of the two
\* allowlist entries; with no identity it is false; identity and role never
\* disagree in a published state.
C5_RoleDerivation ==
    isModerator <=>
        /\ currentUser # NoUser
        /\ EmailOf(currentUser) \in {"akhyarahmad919@gmail.com",
                                     "ansuthisis789@gmail.com"}

\* C5 witness: the account whose address differs only in case is published
\* as signed in and is no moderator
C5_Witness == currentUser = "u_case" /\ ~isModerator /\ ~authLoading

\* a step that delivers the oldest queued notification
IsDelivery == pending # <<>> /\ pending' = Tail(pending)

\* a step in which the provider emits a notification for identity u
IsEmission(u) == pending' = Append(pending, u) /\ authUser' = u

\* C6: the provider's loading flag starts true, is false after the first
\* delivered notification whether it reports an identity or none, changes
\* only in a delivery, and never goes from false to true.
C6_LoadingMonotonic ==
    /\ authLoading = TRUE
    /\ [][ /\ (authLoading = FALSE) => (authLoading' = FALSE)
           /\ IsDelivery => (authLoading' = FALSE)
           /\ (authLoading' # authLoading) => IsDelivery ]_vars

\* C6 witness: loading is false with no identity published while two later
\* sign-in/sign-out notifications wait
C6_Witness == ~authLoading /\ currentUser = NoUser /\ Len(pending) = 2

\* C7: every emitted notification is applied exactly once and in order:
\* the queue changes only by an emission at its end or by the delivery of
\* its head, a delivery publishes the identity of that head, nothing else
\* changes the published identity, and once nothing is queued the published
\* identity is the last one emitted.
C7_NotificationsInOrder ==
    /\ [][ /\ (pending' # pending) =>
                \/ IsDelivery /\ currentUser' = Head(pending)
                \/ \E u \in Users \cup {NoUser} :
                       IsEmission(u) /\ currentUser' = currentUser
           /\ (currentUser' # currentUser) =>
                (IsDelivery /\ currentUser' = Head(pending)) ]_vars
    /\ [](pending = <<>> => currentUser = authUser)

\* C7 witness: every notification up to a later sign-in of the second
\* allowlisted account is handled, and that account is the one published
C7_Witness ==
    /\ pending = <<>> /\ ~authLoading
    /\ currentUser = "u_mod2" /\ authUser = "u_mod2" /\ isModerator


\* C8 (as claimed): whenever the published identity is absent (and the
\* provider's children, the callers of getToken, are rendered), a getToken()
\* call yields no token.
C8_TokenAbsentWhenPublishedAbsent ==
    (~authLoading /\ currentUser = NoUser) => GetToken = NoToken

\* C8 (amended): getToken() yields no token whenever the provider's current
\* identity (auth.currentUser) is absent and the token of that identity
\* otherwise, in every call a cycle makes; once every auth-state
\* notification is delivered, a published identity that is absent therefore
\* means no token.
C8_TokenFollowsProviderIdentity ==
    /\ [](/\ authUser = NoUser => GetToken = NoToken
          /\ authUser # NoUser => GetToken = IdTokenOf(authUser)
          /\ (pending = <<>> /\ currentUser = NoUser) => GetToken = NoToken)
    /\ [][ \A c \in Cycles :
             (pc[c] = "idle" /\ pc'[c] = "awaitToken") =>
                 token'[c] = IF authUser = NoUser THEN NoToken
                             ELSE IdTokenOf(authUser) ]_vars

\* C8 witness: a cycle called getToken() with nothing queued and no identity
\* published, and holds no token
C8_Witness ==
    /\ pending = <<>> /\ currentUser = NoUser /\ ~authLoading
    /\ \E c \in Cycles : pc[c] = "awaitToken" /\ token[c] = NoToken

\* C9: the fields of the published snapshot and its timestamp always come
\* from one single cycle, which has completed successfully, also when
\* cycles overlap.
C9_SnapshotFromOneCycle ==
    /\ snapshot.users = snapshot.stats
    /\ snapshot.lastUpdated = snapshot.stats
    /\ snapshot.sessions = snapshot.documents
    /\ nreq = 4 => snapshot.sessions = snapshot.stats
    /\ snapshot.stats # NoData =>
          (Done(snapshot.stats) /\ effects[snapshot.stats] = {"replace"})

\* C9 witness: the snapshot holds the second cycle's data while the first
\* cycle, started before it, is still waiting for its bodies
C9_Witness == snapshot.stats = 2 /\ pc[1] = "awaitJson"

\* C10: whenever a load cycle is in flight the dashboard's loading flag is
\* true.
C10_LoadingWhileInFlight ==
    (\E c \in Cycles : InFlight(c)) => loading = TRUE

\* the snapshot fields the mounted variant has, with the timestamp
SnapshotFields ==
    IF nreq = 4 THEN {"users", "sessions", "documents", "stats", "lastUpdated"}
    ELSE {"users", "stats", "lastUpdated"}

\* C11: the step that ends a successful cycle stores that cycle's data in
\* every snapshot field and its timestamp at once, and any step that changes
\* one of the fields changes all of them and the timestamp: no state shows
\* some fields of the new cycle next to others of the old one.
C11_WholesaleReplacement ==
    /\ [][ /\ \A c \in Cycles :
                (pc[c] = "awaitJson" /\ pc'[c] = "done"
                     /\ "replace" \in effects'[c])
                    => \A f \in SnapshotFields : snapshot'[f] = c
           /\ (\E f \in SnapshotFields : snapshot'[f] # snapshot[f])
                => (\A f \in SnapshotFields : snapshot'[f] # snapshot[f]) ]_vars
    /\ [](\A f, g \in SnapshotFields : snapshot[f] = snapshot[g])

\* C11 witness: the second cycle's data replaced the data the first cycle
\* had stored
C11_Witness ==
    /\ Done(1) /\ effects[1] = {"replace"}
    /\ Done(2) /\ effects[2] = {"replace"}
    /\ \A f \in SnapshotFields : snapshot[f] = 2

C15_LatencyTiersAsCommented ==
    (colorClasses # "" /\ stat.unit = "ms") =>
        /\ stat.value < 150 * Scale => colorClasses = GreenClasses
        /\ (150 * Scale <= stat.value /\ stat.value < 250 * Scale)
               => colorClasses = YellowClasses
        /\ stat.value > 250 * Scale => colorClasses = RedClasses
        /\ GetColorClassesReduced(stat.value, stat.unit)
               = GetColorClassesExtended(stat.value, stat.unit)

\* the published SessionState
SessionState == <<currentUser, authLoading, isModerator>>

\* C13: a signup/login/signInWithGoogle/logout call the provider rejects
\* gives its caller a rejected promise, never a fulfilled one, and leaves
\* the published SessionState as it was; the SessionState changes only in
\* the delivery of an auth-state notification.
C13_FailedCallReported ==
    /\ [](lastCall.settled = "rejected" => lastCall.returned = "rejected")
    /\ [][ /\ (lastCall' # lastCall /\ lastCall'.settled = "rejected")
                => SessionState' = SessionState
           /\ (SessionState' # SessionState) => IsDelivery ]_vars

\* C13 witness: a call was rejected while an ordinary user is published as
\* signed in and nothing is queued
C13_Witness ==
    /\ lastCall = [settled |-> "rejected", returned |-> "rejected"]
    /\ currentUser = "u_plain" /\ authUser = "u_plain" /\ pending = <<>>
    /\ ~authLoading /\ ~isModerator

\* C14: a cycle that obtained a token and ends while waiting for its
\* responses without a 401/403 among them (a response that is not 2xx, or a
\* request that failed) sets the error message and redirects nowhere; and
\* at the end of every cycle that ends with the snapshot replaced or with a
\* redirect the error message is empty.
C14_RemoteErrorAndClearedMessage ==
    [][ \A c \in Cycles :
          /\ (pc[c] = "awaitFetch" /\ pc'[c] = "done" /\ ~sawUnauth'[c])
                => (effects'[c] = {"error"} /\ error' = ErrorMessage)
          /\ (InFlight(c) /\ pc'[c] = "done"
                 /\ effects'[c] \cap {"replace", "/login", "/documind"} # {})
                => error' = "" ]_vars

\* C16: when every awaited promise settles, every started cycle finishes;
\* the step that finishes a cycle, whatever its outcome, sets loading to
\* false; once a cycle was started and none is in flight, loading is false,
\* and the Refresh or the Retry button can start the next cycle.
C16_CycleTerminates ==
    /\ \A c \in Cycles : InFlight(c) ~> Done(c)
    /\ [][ \A c \in Cycles : (InFlight(c) /\ pc'[c] = "done")
                                  => loading' = FALSE ]_vars
    /\ []((cyc > 0 /\ \A c \in Cycles : ~InFlight(c)) =>
            /\ loading = FALSE
            /\ cyc < MaxCycles => (ENABLED Refresh \/ ENABLED Retry))

\* C16 witness: one cycle ended with an error, the next one, started by the
\* Retry button, with the sign-in redirect, and loading is false
C16_Witness ==
    /\ effectRuns = 1
    /\ Done(1) /\ effects[1] = {"error"}
    /\ Done(2) /\ effects[2] = {"/login"}
    /\ ~loading

\* C17: a cycle starts all its N requests together, in the step in which it
\* got its token: it has issued none or all N, all N are in flight while it
\* waits for responses, and it has looked at responses (found a 401/403,
\* gone on to the bodies, replaced the snapshot) only with all N issued.
C17_ParallelDispatch ==
    \A c \in Cycles :
        /\ nIssued[c] \in {0, nreq}
        /\ Len(requests[c]) \in {0, nreq}
        /\ pc[c] = "awaitFetch" =>
              (nIssued[c] = nreq /\ Len(requests[c]) = nreq)
        /\ (sawUnauth[c] \/ pc[c] = "awaitJson"
               \/ effects[c] \cap {"/documind", "replace"} # {})
              => nIssued[c] = nreq

\* C17 witness: the four requests of an extended-variant cycle are in
\* flight together
C17_Witness ==
    nreq = 4 /\ pc[1] = "awaitFetch" /\ Len(requests[1]) = 4 /\ nIssued[1] = 4

\* C18: a cycle reads the token once, from the provider's identity at its
\* start; every request of the cycle carries that token; a step that
\* changes the provider's identity (sign-in, sign-out) changes neither the
\* token, nor the requests, nor the position of a cycle in flight.
C18_OneTokenPerCycle ==
    /\ [](\A c \in Cycles : \A i \in DOMAIN requests[c] :
             requests[c][i] = token[c])
    /\ [][ \A c \in Cycles :
             /\ (pc[c] = "idle" /\ pc'[c] = "awaitToken")
                   => token'[c] = GetToken
             /\ (InFlight(c) /\ InFlight(c)') => token'[c] = token[c]
             /\ (InFlight(c) /\ authUser' # authUser) =>
                   /\ requests'[c] = requests[c]
                   /\ pc'[c] = pc[c] ]_vars

\* C18 witness: the requests of a cycle carry the token of the moderator who
\* has signed out since the cycle read it
C18_Witness ==
    \E c \in Cycles :
        /\ pc[c] = "awaitFetch" /\ authUser = NoUser
        /\ token[c] = "tok_mod1"
        /\ \A i \in 1..nreq : requests[c][i] = "tok_mod1"

\* C19: no cycle is started, no getToken() is called by the dashboard and
\* no call is made on the provider while the provider's loading flag is
\* true, that is before the first auth-state notification is handled.
C19_NothingBeforeFirstNotification ==
    authLoading =>
        /\ cyc = 0 /\ effectRuns = 0
        /\ \A c \in Cycles : pc[c] = "idle" /\ token[c] = NoToken
        /\ lastCall = NoCall

\* C19 witness: the first cycle runs, started after the first notification
\* was handled, with no call made on the provider yet
C19_Witness ==
    /\ ~authLoading /\ lastCall = NoCall /\ pending = <<>>
    /\ cyc = 1 /\ pc[1] = "awaitToken" /\ token[1] = "tok_mod1"

\* C20: of two cycles that both replaced the snapshot, the one started
\* earlier is never the one whose data is published once both are done.
C20_LastStartedWins ==
    \A c, d \in Cycles :
        (c < d /\ Done(c) /\ effects[c] = {"replace"}
               /\ Done(d) /\ effects[d] = {"replace"})
            => snapshot.stats # c

\* C21: a cycle whose responses are all 2xx and of which a body fails to
\* parse ends, in the step of the failure, with the error message set and
\* nothing else done, and no snapshot field or timestamp written: while a
\* cycle waits for its bodies and after it failed on them, no field holds
\* its data.
C21_ParseFailureWritesNothing ==
    /\ [][ \A c \in Cycles :
             (pc[c] = "awaitJson" /\ pc'[c] = "done"
                  /\ "replace" \notin effects'[c])
                 => /\ snapshot' = snapshot
                    /\ effects'[c] = {"error"}
                    /\ error' = ErrorMessage ]_vars
    /\ [](\A c \in Cycles :
             /\ pc[c] = "awaitJson" =>
                   (allOk[c] /\ \A f \in SnapshotFields : snapshot[f] # c)
             /\ (Done(c) /\ allOk[c] /\ "replace" \notin effects[c]) =>
                   /\ effects[c] = {"error"}
                   /\ \A f \in SnapshotFields : snapshot[f] # c)

\* C21 witness: the second cycle got only 2xx responses and failed on a
\* body; the first cycle's snapshot is still the published one and the
\* error message is set
C21_Witness ==
    /\ Done(2) /\ allOk[2] /\ effects[2] = {"error"}
    /\ error = ErrorMessage
    /\ Done(1) /\ \A f \in SnapshotFields : snapshot[f] = 1

====
